---- MODULE Spec2Model ----
(***************************************************************************)
(* A model of irlib's Survey class (src/irlib/survey.py): the HDF5 handle  *)
(* discipline, the FID codec, line extraction (selection, sorting,         *)
(* bounding, zero-padded assembly, the cache short-cut) and the retain     *)
(* mask with WriteHDF5.                                                    *)
(*                                                                         *)
(* Python strings are sequences of one-character strings, so that          *)
(* formatting, splitting and integer parsing are modelled by what they do. *)
(***************************************************************************)
EXTENDS Integers, Sequences, FiniteSets, TLC

(***************************************************************************)
(* Bounds of the model.                                                    *)
(***************************************************************************)
\* bounds indices offered to ExtractLine range over -1..MaxIndex
MaxIndex == 5
\* the longest trace of the line store has MaxSamples samples
MaxSamples == 3

(***************************************************************************)
(* Python strings.                                                         *)
(***************************************************************************)
\* characters in ASCII order (only the ones the store's names use)
Alphabet == <<"/", "0", "1", "2", "3", "4", "5", "6", "7", "8", "9", "_",
              "a", "b", "c", "d", "e", "f", "g", "h", "i", "j", "k", "l", "m",
              "n", "o", "p", "q", "r", "s", "t", "u", "v", "w", "x", "y", "z">>

Ord(c) == CHOOSE i \in 1..Len(Alphabet) : Alphabet[i] = c

Digits == <<"0", "1", "2", "3", "4", "5", "6", "7", "8", "9">>

IsDigit(c) == \E i \in 1..10 : Digits[i] = c

DigitVal(c) == (CHOOSE i \in 1..10 : Digits[i] = c) - 1

\* str(n) for an integer n >= 0
RECURSIVE Str(_)
Str(n) == IF n < 10 THEN <<Digits[n + 1]>> ELSE Str(n \div 10) \o <<Digits[(n % 10) + 1]>>

\* s.rjust(w, c)
RECURSIVE RJust(_, _, _)
RJust(s, w, c) == IF Len(s) >= w THEN s ELSE RJust(<<c>> \o s, w, c)

\* s[k:] for k >= 0
DropFirst(s, k) == IF k >= Len(s) THEN <<>> ELSE SubSeq(s, k + 1, Len(s))

\* s[:k] for k >= 0
TakeFirst(s, k) == IF k >= Len(s) THEN s ELSE SubSeq(s, 1, k)

\* index of the first occurrence of character c in s, 0 when there is none
FindChar(s, c) == IF \E i \in 1..Len(s) : s[i] = c THEN CHOOSE i \in 1..Len(s) : s[i] = c /\ \A j \in 1..(i - 1) : s[j] # c ELSE 0

\* s.split(sep, maxsplit); maxsplit = -1 splits everywhere
RECURSIVE SplitMax(_, _, _)
SplitMax(s, sep, maxsplit) ==
    LET i == FindChar(s, sep)
    IN  IF maxsplit = 0 \/ i = 0 THEN <<s>>
        ELSE <<SubSeq(s, 1, i - 1)>> \o SplitMax(DropFirst(s, i), sep, IF maxsplit < 0 THEN maxsplit ELSE maxsplit - 1)

\* s.split(sep)
Split(s, sep) == SplitMax(s, sep, -1)

\* sep.join(parts)
RECURSIVE Join(_, _)
Join(parts, sep) == IF Len(parts) = 0 THEN <<>> ELSE IF Len(parts) = 1 THEN parts[1] ELSE parts[1] \o <<sep>> \o Join(Tail(parts), sep)

\* sub in s
Contains(s, sub) == \E i \in 0..(Len(s) - Len(sub)) : SubSeq(s, i + 1, i + Len(sub)) = sub

\* the value of a digit string
RECURSIVE DigitsValue(_)
DigitsValue(s) == IF Len(s) = 0 THEN 0 ELSE 10 * DigitsValue(SubSeq(s, 1, Len(s) - 1)) + DigitVal(s[Len(s)])

\* int(s): a string of digits parses, anything else raises ValueError
IntOk(s) == Len(s) > 0 /\ \A i \in 1..Len(s) : IsDigit(s[i])

\* strcmp order of two names
RECURSIVE StrLess(_, _)
StrLess(a, b) ==
    IF Len(b) = 0 THEN FALSE
    ELSE IF Len(a) = 0 THEN TRUE
    ELSE IF a[1] = b[1] THEN StrLess(Tail(a), Tail(b))
    ELSE Ord(a[1]) < Ord(b[1])

\* the literals of the source
LitLine == <<"l", "i", "n", "e">>
LitLine_ == <<"l", "i", "n", "e", "_">>
LitLocation_ == <<"l", "o", "c", "a", "t", "i", "o", "n", "_">>
LitDatacapture_ == <<"d", "a", "t", "a", "c", "a", "p", "t", "u", "r", "e", "_">>
LitEchogram_ == <<"e", "c", "h", "o", "g", "r", "a", "m", "_">>
LitPicked == <<"p", "i", "c", "k", "e", "d">>


(***************************************************************************)
(* Python values that reach ExtractLine as arguments: an int, None, a str, *)
(* a float, or a tuple/list of such values.                                *)
(***************************************************************************)
PyInt(n) == [t |-> "int", v |-> n, items |-> <<>>]
PyNone == [t |-> "none", v |-> 0, items |-> <<>>]
PyStr == [t |-> "str", v |-> 0, items |-> <<>>]
PyFloat == [t |-> "float", v |-> 0, items |-> <<>>]
PyTuple(xs) == [t |-> "tuple", v |-> 0, items |-> xs]

(***************************************************************************)
(* The HDF5 store.  A store is a set of datasets (leaves); every proper    *)
(* prefix of a dataset's path is a group.  A leaf is a raw trace           *)
(* line_<lin>/location_<loc>/datacapture_<dc>/echogram_<eg>, a picked      *)
(* overlay line_<lin>/location_<loc>/datacapture_<dc>/picked, or (root)    *)
(* a dataset that sits directly under the root.                            *)
(***************************************************************************)
LineName(n) == LitLine_ \o Str(n)
LocationName(n) == LitLocation_ \o Str(n)
DatacaptureName(n) == LitDatacapture_ \o Str(n)
EchogramName(n) == LitEchogram_ \o Str(n)

Trace(lin, loc, dc, eg, val) == [kind |-> "trace", lin |-> lin, loc |-> loc, dc |-> dc, eg |-> eg, val |-> val]
Picked(lin, loc, dc, val) == [kind |-> "picked", lin |-> lin, loc |-> loc, dc |-> dc, eg |-> 0, val |-> val]
RootData(val) == [kind |-> "root", lin |-> 0, loc |-> 0, dc |-> 0, eg |-> 0, val |-> val]

\* the path of a leaf, as its sequence of names from the root
LeafSegs(l) ==
    IF l.kind = "root" THEN << <<"n", "o", "t", "e", "s">> >>
    ELSE <<LineName(l.lin), LocationName(l.loc), DatacaptureName(l.dc)>>
         \o (IF l.kind = "picked" THEN <<LitPicked>> ELSE <<EchogramName(l.eg)>>)

IsPrefix(p, q) == Len(p) <= Len(q) /\ SubSeq(q, 1, Len(p)) = p

\* a set of names as the sequence HDF5 iterates it: in strcmp order
RECURSIVE SortNames(_)
SortNames(S) ==
    IF S = {} THEN <<>>
    ELSE LET m == CHOOSE x \in S : \A y \in S \ {x} : StrLess(x, y)
         IN  <<m>> \o SortNames(S \ {m})

\* The file that holds the leaves: data maps the path of every dataset to
\* its leaf, groups are the paths of the groups (the root is <<>>), keys is
\* the name index of every group.
MakeFile(leaves) ==
    LET data == [p \in {LeafSegs(l) : l \in leaves} |-> CHOOSE l \in leaves : LeafSegs(l) = p]
        groups == UNION {{SubSeq(p, 1, k) : k \in 0..(Len(p) - 1)} : p \in DOMAIN data} \cup {<<>>}
        nodes == DOMAIN data \cup groups
    IN  [exists |-> TRUE, data |-> data, groups |-> groups,
         keys |-> [g \in groups |-> SortNames({p[Len(g) + 1] : p \in {q \in nodes : Len(q) = Len(g) + 1 /\ IsPrefix(g, q)}})]]

\* no file at the path
NoFile == [exists |-> FALSE, data |-> <<>>, groups |-> {}, keys |-> <<>>]

\* f[path]: a path string resolves by its non-empty '/'-separated names
Resolve(path) == SelectSeq(Split(path, "/"), LAMBDA seg : Len(seg) > 0)

\* isinstance(f[segs], h5py.Group), isinstance(f[segs], h5py.Dataset), and
\* whether f[segs] exists at all (KeyError otherwise)
IsGroup(f, segs) == segs \in f.groups
IsDataset(f, segs) == segs \in DOMAIN f.data
Exists(f, segs) == IsGroup(f, segs) \/ IsDataset(f, segs)

\* f[segs].value and f[segs].shape[0] of a dataset
Value(f, segs) == f.data[segs].val
Shape0(f, segs) == Len(Value(f, segs))

\* f[segs].name: the absolute path string
AbsName(segs) == <<"/">> \o Join(segs, "/")

\* f[group].keys(), also the order of iterating a group
Keys(f, group) == f.keys[group]

\* f[group].visit(names.append): every descendant, depth first, by relative name
RECURSIVE VisitFrom(_, _, _, _)
VisitFrom(f, group, rel, keys) ==
    IF Len(keys) = 0 THEN <<>>
    ELSE LET child == Append(group, keys[1])
             name == IF Len(rel) = 0 THEN keys[1] ELSE rel \o <<"/">> \o keys[1]
         IN  <<name>>
             \o (IF IsGroup(f, child) THEN VisitFrom(f, child, name, Keys(f, child)) ELSE <<>>)
             \o VisitFrom(f, group, rel, Tail(keys))

Visit(f, group) == VisitFrom(f, group, <<>>, Keys(f, group))

(***************************************************************************)
(* Survey._path2fid                                                        *)
(***************************************************************************)
\* int(p.split('/', maxsplit)[idx].split('_', 1)[1]); -1 stands for the
\* IndexError or ValueError the expression raises
FidField(p, maxsplit, idx) ==
    LET parts == SplitMax(p, "/", maxsplit)
    IN  IF Len(parts) < idx + 1 THEN -1
        ELSE LET sub == SplitMax(parts[idx + 1], "_", 1)
             IN  IF Len(sub) < 2 \/ ~IntOk(sub[2]) THEN -1 ELSE DigitsValue(sub[2])

LineField(p) == FidField(p, 1, 0)
LocationField(p) == FidField(p, 2, 1)
DatacaptureField(p) == FidField(p, 3, 2)
EchogramField(p) == FidField(p, 3, 2)

\* the FID of a path: [ok |-> FALSE] when the method raises
Path2Fid(path, linloc_only) ==
    LET p == DropFirst(path, 1)
        lin == LineField(p)
        loc == LocationField(p)
        dc == IF linloc_only THEN 0 ELSE DatacaptureField(p)
        eg == IF linloc_only THEN 0 ELSE EchogramField(p)
    IN  IF lin < 0 \/ loc < 0 \/ dc < 0 \/ eg < 0 THEN [ok |-> FALSE, fid |-> <<>>]
        ELSE [ok |-> TRUE, fid |-> RJust(Str(lin), 4, "0") \o RJust(Str(loc), 4, "0") \o RJust(Str(dc), 4, "0") \o RJust(Str(eg), 4, "0")]

(***************************************************************************)
(* Survey.ExtractLine: selection, sorting, bounding, assembly              *)
(***************************************************************************)
\* the datacapture argument as a list of group names; an int is not
\* iterable (TypeError) and stands for itself
AllowedDatacaptures(datacapture) ==
    IF datacapture.t = "tuple" THEN [i \in 1..Len(datacapture.items) |-> DatacaptureName(datacapture.items[i].v)]
    ELSE <<DatacaptureName(datacapture.v)>>

InSeq(x, xs) == \E i \in 1..Len(xs) : xs[i] = x

\* the two inner filters: datasets only, nothing whose name holds 'picked'
RawDatasets(f, line, names) ==
    LET isData(a) == IsDataset(f, line \o Resolve(a))
        notPicked(b) == ~Contains(AbsName(line \o Resolve(b)), LitPicked)
    IN  SelectSeq(SelectSeq(names, isData), notPicked)

\* c.split('/')[-2] raises IndexError on a name of one segment
ParentOk(c) == Len(Split(c, "/")) >= 2
Parent(c) == Split(c, "/")[Len(Split(c, "/")) - 1]

\* the outer filter: the datasets of the allowed datacaptures
ChannelDatasets(raw, allowed) == SelectSeq(raw, LAMBDA c : InSeq(Parent(c), allowed))

\* the sort key int(s.split('/')[0].split('_')[1]); -1 when it raises
LocationKey(s) ==
    LET sub == Split(Split(s, "/")[1], "_")
    IN  IF Len(sub) < 2 \/ ~IntOk(sub[2]) THEN -1 ELSE DigitsValue(sub[2])

\* the pair x put behind the last pair of the sorted xs whose key is not larger
RECURSIVE InsertByKey(_, _)
InsertByKey(xs, x) ==
    IF Len(xs) = 0 THEN <<x>>
    ELSE IF xs[Len(xs)][1] <= x[1] THEN Append(xs, x)
    ELSE Append(InsertByKey(SubSeq(xs, 1, Len(xs) - 1), x), xs[Len(xs)])

\* list.sort(key=...) on <<key, item>> pairs: stable, ascending by key
RECURSIVE SortPairs(_)
SortPairs(ps) ==
    IF Len(ps) = 0 THEN <<>>
    ELSE InsertByKey(SortPairs(SubSeq(ps, 1, Len(ps) - 1)), ps[Len(ps)])

\* the datasets left in the order the names sort as strings
SortByName(datasets) == datasets

\* datasets.sort(key=(lambda s: int(s.split('/')[0].split('_')[1])))
SortByLocation(datasets) ==
    LET sorted == SortPairs([i \in 1..Len(datasets) |-> <<LocationKey(datasets[i]), datasets[i]>>])
    IN  [i \in 1..Len(sorted) |-> sorted[i][2]]

\* xs[:hi] and xs[lo:] for any integer index
SliceTo(xs, hi) == IF hi >= 0 THEN TakeFirst(xs, hi) ELSE TakeFirst(xs, IF Len(xs) + hi > 0 THEN Len(xs) + hi ELSE 0)
SliceFrom(xs, lo) == IF lo >= 0 THEN DropFirst(xs, lo) ELSE DropFirst(xs, IF Len(xs) + lo > 0 THEN Len(xs) + lo ELSE 0)

\* The bounds block.  bounds[1] and bounds[0] raise TypeError on a value
\* that is no sequence and IndexError on a sequence that is too short; a
\* slice by a str or a float raises TypeError.  Only TypeError is caught:
\* exc is the exception that leaves the block, diag whether the message was
\* written, datasets the list as the block leaves it.
ApplyBounds(datasets, bounds) ==
    IF bounds.t # "tuple" THEN [datasets |-> datasets, diag |-> TRUE, exc |-> ""]
    ELSE IF Len(bounds.items) < 2 THEN [datasets |-> datasets, diag |-> FALSE, exc |-> "IndexError"]
    ELSE LET hi == bounds.items[2]
             lo == bounds.items[1]
         IN  IF hi.t \notin {"none", "int"} THEN [datasets |-> datasets, diag |-> TRUE, exc |-> ""]
             ELSE LET upper == IF hi.t = "int" THEN SliceTo(datasets, hi.v) ELSE datasets
                  IN  IF lo.t \notin {"none", "int"} THEN [datasets |-> upper, diag |-> TRUE, exc |-> ""]
                      ELSE [datasets |-> IF lo.t = "int" THEN SliceFrom(upper, lo.v) ELSE upper, diag |-> FALSE, exc |-> ""]

\* np.zeros((m, k)) as rows of columns
Zeros(m, k) == [r \in 1..m |-> [c \in 1..k |-> 0]]

\* arr[:n, j] = val
AssignColumn(arr, n, j, val) == [r \in 1..Len(arr) |-> [c \in 1..Len(arr[r]) |-> IF c = j /\ r <= n THEN val[r] ELSE arr[r][c]]]

RECURSIVE FillColumns(_, _, _, _)
FillColumns(arr, nsamples, values, j) ==
    IF j > Len(values) THEN arr
    ELSE FillColumns(AssignColumn(arr, nsamples[j], j, values[j]), nsamples, values, j + 1)

\* the length of the first trace taken for the length of all
SeqFirst(xs) == xs[1]

SeqMax(xs) == CHOOSE m \in {xs[i] : i \in 1..Len(xs)} : \A i \in 1..Len(xs) : xs[i] <= m

\* the array of the selected datasets: max() of an empty list raises
\* ValueError (ok |-> FALSE)
Assemble(f, line, datasets) ==
    LET nsamples == [j \in 1..Len(datasets) |-> Shape0(f, line \o Resolve(datasets[j]))]
        values == [j \in 1..Len(datasets) |-> Value(f, line \o Resolve(datasets[j]))]
    IN  IF Len(nsamples) = 0 THEN [ok |-> FALSE, shape |-> <<0, 0>>, arr |-> <<>>]
        ELSE [ok |-> TRUE, shape |-> <<SeqMax(nsamples), Len(datasets)>>,
              arr |-> FillColumns(Zeros(SeqMax(nsamples), Len(datasets)), nsamples, values, 1)]

\* what RecordList keeps of the traces handed to AddDataset: the FIDs, less
\* the records cropped after a ParseError (bad: the first trace fails to parse)
MetadataRecords(fids, bad) == IF bad /\ Len(fids) > 0 THEN Tail(fids) ELSE fids

(***************************************************************************)
(* Survey.GetLineCacheName                                                 *)
(***************************************************************************)
\* the file name of the survey and the default cache directory
DataFile == <<"s", "u", "r", "v", "e", "y", ".", "h", "5">>
CacheDir == <<"c", "a", "c", "h", "e">>

\* index of the last occurrence of c in s, 0 when there is none
FindLast(s, c) == IF \E i \in 1..Len(s) : s[i] = c THEN CHOOSE i \in 1..Len(s) : s[i] = c /\ \A j \in (i + 1)..Len(s) : s[j] # c ELSE 0

\* os.path.basename(s) and os.path.splitext(s)[0]
BaseName(s) == DropFirst(s, FindLast(s, "/"))
SplitExt0(s) == IF FindLast(s, ".") <= 1 THEN s ELSE TakeFirst(s, FindLast(s, ".") - 1)

\* str(v) of an int or of a list of ints
RECURSIVE StrItems(_)
StrItems(xs) == IF Len(xs) = 0 THEN <<>> ELSE IF Len(xs) = 1 THEN Str(xs[1].v) ELSE Str(xs[1].v) \o <<",", " ">> \o StrItems(Tail(xs))
StrPy(v) == IF v.t = "tuple" THEN <<"[">> \o StrItems(v.items) \o <<"]">> ELSE Str(v.v)

GetLineCacheName(line, dc, cache_dir) ==
    cache_dir \o <<"/">> \o SplitExt0(BaseName(DataFile)) \o <<"_", "l", "i", "n", "e">> \o Str(line) \o <<"_">> \o StrPy(dc) \o <<".", "i", "r", "d">>

(***************************************************************************)
(* The state.                                                              *)
(***************************************************************************)
VARIABLES
    store,       \* the HDF5 file at self.datafile (MakeFile or NoFile)
    cachefiles,  \* the files of the cache directory: name -> "valid" | "corrupt"
    dest,        \* the file WriteHDF5 writes (MakeFile, NewFile or NoFile)
    obj,         \* "none" | "live" | "failed" (the constructor raised)
    status,      \* self.status: "unset" | "open" | "closed"
    retain,      \* self.retain: line name -> location name -> BOOLEAN
    last,        \* the call the caller is looking at: its arguments, how it ended,
                 \* what it returned, the diagnostics it wrote, the handle states it
                 \* read the store in, and the lists ExtractLine had when it reached
                 \* the bounds block (stage = "bounds")
    fidlog       \* the _path2fid calls the caller compares (at most two)

vars == <<store, cachefiles, dest, obj, status, retain, last, fidlog>>

\* no call yet
NoCall ==
    [op |-> "none", args |-> <<>>, outcome |-> "none", exc |-> "", ret |-> [kind |-> "None"],
     diag |-> <<>>, opened |-> FALSE, reads |-> {}, stage |-> "", sorted |-> <<>>, selected |-> <<>>]

Call(op, args) == [NoCall EXCEPT !.op = op, !.args = args]
Return(c, ret) == [c EXCEPT !.outcome = "return", !.ret = ret]
Raise(c, exc) == [c EXCEPT !.outcome = "raise", !.exc = exc]
Diag(c, msg) == [c EXCEPT !.diag = Append(@, msg)]
None == [kind |-> "None"]

(***************************************************************************)
(* Survey._openh5, Survey._closeh5                                         *)
(***************************************************************************)
\* self.status after _openh5() on a file that opens, and after _closeh5()
OpenH5(st) == "open"
\* a close that is skipped
CloseH5Skipped(st) == st
CloseH5(st) == "closed"

\* self.retain[name] of the auto-vivifying map
RetainOf(ret, name) == IF name \in DOMAIN ret THEN ret[name] ELSE <<>>

(***************************************************************************)
(* Survey.ExtractLine                                                      *)
(***************************************************************************)
\* from the opened store on; c carries the call and its diagnostics so far
ExtractFromStore(f, ret, a, c0) ==
    LET c == [c0 EXCEPT !.opened = TRUE]
        path == LineName(a.line)
        line == Resolve(path)
    IN  IF ~IsGroup(f, line) THEN Raise(c, "KeyError")
        ELSE
        LET names == Visit(f, line)
            raw == RawDatasets(f, line, names)
        IN  IF \E i \in 1..Len(raw) : ~ParentOk(raw[i]) THEN Raise(c, "IndexError")
            ELSE
            LET datasets == ChannelDatasets(raw, AllowedDatacaptures(a.datacapture))
                c1 == IF Len(datasets) = 0 THEN Diag(c, "no_match") ELSE c
            IN  IF \E i \in 1..Len(datasets) : LocationKey(datasets[i]) < 0 THEN Raise(Diag(c1, "sort_error"), "ValueError")
                ELSE
                LET sorted == SortByLocation(datasets)
                    b == ApplyBounds(sorted, a.bounds)
                    c2 == [(IF b.diag THEN Diag(c1, "bad_bounds") ELSE c1) EXCEPT !.stage = "bounds", !.sorted = sorted, !.selected = b.datasets]
                IN  IF b.exc # "" THEN Raise(c2, b.exc)
                    ELSE
                    LET fids == [i \in 1..Len(b.datasets) |-> Path2Fid(path \o <<"/">> \o b.datasets[i], FALSE)]
                        c3 == IF a.bad /\ Len(fids) > 0 THEN Diag(c2, "parse_error") ELSE c2
                        asm == Assemble(f, line, b.datasets)
                    IN  IF \E i \in 1..Len(fids) : ~fids[i].ok THEN Raise(Diag(c2, "path2fid_failed"), "IndexError")
                        ELSE IF ~asm.ok THEN Return(Diag(c3, "empty_line"), None)
                        ELSE Return(c3, [kind |-> "gather", arr |-> asm.arr, shape |-> asm.shape,
                                         infile |-> DataFile, line |-> a.line,
                                         metadata |-> MetadataRecords([i \in 1..Len(fids) |-> fids[i].fid], a.bad),
                                         retain |-> RetainOf(ret, path), dc |-> a.datacapture])

\* the whole call: the cache short-cut first
ExtractLineRun(f, files, ret, a) ==
    LET c == Call("ExtractLine", a)
        fnm == GetLineCacheName(a.line, a.datacapture, CacheDir)
    IN  IF a.fromcache /\ fnm \in DOMAIN files
        THEN IF files[fnm] = "valid" THEN Return(c, [kind |-> "cached"]) ELSE Raise(c, "UnpicklingError")
        ELSE ExtractFromStore(f, ret, a, IF a.fromcache THEN Diag(c, "cache_miss") ELSE c)

(***************************************************************************)
(* Survey.__init__, Survey.__del__                                         *)
(***************************************************************************)
\* the retain map of a store: every location of every root group is kept
BuildRetain(f) ==
    LET lines == {line \in {Keys(f, <<>>)[i] : i \in 1..Len(Keys(f, <<>>))} : IsGroup(f, <<line>>)}
    IN  [line \in lines |-> [location \in {Keys(f, <<line>>)[i] : i \in 1..Len(Keys(f, <<line>>))} |-> TRUE]]

\* _openh5() stands before the try block: h5py.File raises IOError on a
\* missing file before self.status or self.retain is ever assigned
Construct ==
    /\ last = NoCall
    /\ obj = "none"
    /\ IF store.exists
       THEN /\ obj' = "live"
            /\ status' = CloseH5(OpenH5(status))
            /\ retain' = BuildRetain(store)
            /\ last' = Return([Call("Survey", <<>>) EXCEPT !.opened = TRUE, !.reads = {OpenH5(status)}], None)
       ELSE /\ obj' = "failed"
            /\ status' = "unset"
            /\ retain' = <<>>
            /\ last' = Raise(Call("Survey", <<>>), "IOError")
    /\ UNCHANGED <<store, cachefiles, dest, fidlog>>

\* __del__ reads self.status, which a failed constructor never assigned
Del ==
    /\ last = NoCall
    /\ obj \in {"live", "failed"}
    /\ obj' = "none"
    /\ status' = "unset"
    /\ retain' = <<>>
    /\ last' = IF status = "unset" THEN Raise(Call("__del__", <<>>), "AttributeError")
               ELSE Return(Call("__del__", <<>>), None)
    /\ UNCHANGED <<store, cachefiles, dest, fidlog>>

(***************************************************************************)
(* Survey.GetLines, Survey.GetChannelsInLine, Survey.ExtractTrace,         *)
(* Survey._getdatasets                                                     *)
(***************************************************************************)
\* the key int(s.split('_')[1]) of GetLines; -1 when it raises
LineKey(s) ==
    LET sub == Split(s, "_")
    IN  IF Len(sub) < 2 \/ ~IntOk(sub[2]) THEN -1 ELSE DigitsValue(sub[2])

GetLinesRun(f, c0) ==
    LET c == [c0 EXCEPT !.opened = TRUE]
        lines == SelectSeq(Keys(f, <<>>), LAMBDA name : TakeFirst(name, 4) = LitLine)
        sorted == SortPairs([i \in 1..Len(lines) |-> <<LineKey(lines[i]), lines[i]>>])
    IN  IF \E i \in 1..Len(lines) : LineKey(lines[i]) < 0 THEN Raise(c, "ValueError")
        ELSE Return(c, [kind |-> "list", items |-> [i \in 1..Len(sorted) |-> sorted[i][2]]])

\* every exit of the methods below passes the finally clause that closes
\* the handle they opened
Finish(c) ==
    /\ last = NoCall
    /\ last' = [c EXCEPT !.reads = IF c.opened THEN {OpenH5(status)} ELSE {}]
    /\ status' = IF c.opened THEN CloseH5(OpenH5(status)) ELSE status
    /\ UNCHANGED <<store, cachefiles, dest, obj, retain, fidlog>>

GetLines ==
    /\ obj = "live"
    /\ Finish(GetLinesRun(store, Call("GetLines", <<>>)))

\* the handler of IndexError calls len() on the bound method and so raises
\* TypeError itself
GetChannelsInLineRun(f, lineno) ==
    LET g == GetLinesRun(f, Call("GetChannelsInLine", [lineno |-> lineno]))
    IN  IF g.outcome = "raise" THEN g
        ELSE LET lines == g.ret.items
                 n == Len(lines)
             IN  IF lineno >= n \/ lineno < -n THEN Raise(g, "TypeError")
                 ELSE LET line == lines[IF lineno >= 0 THEN lineno + 1 ELSE n + lineno + 1]
                          locs == Keys(f, <<line>>)
                          dclist == [i \in 1..Len(locs) |-> Len(Keys(f, <<line, locs[i]>>))]
                      IN  IF \E i \in 1..Len(locs) : ~IsGroup(f, <<line, locs[i]>>) THEN Raise(g, "AttributeError")
                          ELSE IF Len(dclist) = 0 THEN Raise(g, "ValueError")
                          ELSE Return(g, [kind |-> "int", v |-> SeqMax(dclist)])

GetChannelsInLine(lineno) ==
    /\ obj = "live"
    /\ Finish(GetChannelsInLineRun(store, lineno))

ExtractTraceRun(f, a) ==
    LET c == [Call("ExtractTrace", a) EXCEPT !.opened = TRUE]
        path == LineName(a.line) \o <<"/">> \o LocationName(a.location) \o <<"/">> \o DatacaptureName(a.datacapture) \o <<"/">> \o EchogramName(a.echogram)
    IN  IF IsDataset(f, Resolve(path)) THEN Return(c, [kind |-> "vector", v |-> Value(f, Resolve(path))])
        ELSE IF IsGroup(f, Resolve(path)) THEN Raise(c, "AttributeError")
        ELSE Raise(c, "KeyError")

ExtractTrace(a) ==
    /\ obj = "live"
    /\ Finish(ExtractTraceRun(store, a))

\* names are relative to path, but line 98 looks them up from the root
GetDatasetsRun(f, line) ==
    LET c == [Call("_getdatasets", [line |-> line]) EXCEPT !.opened = TRUE]
        path == IF line.t = "int" THEN LineName(line.v) \o <<"/">> ELSE <<"/">>
    IN  IF ~IsGroup(f, Resolve(path)) THEN Raise(c, "KeyError")
        ELSE LET names == Visit(f, Resolve(path))
                 keep(name) == IsDataset(f, Resolve(name)) /\ ~Contains(AbsName(Resolve(path) \o Resolve(name)), LitPicked)
                 kept == SelectSeq(names, keep)
             IN  IF \E i \in 1..Len(names) : ~Exists(f, Resolve(names[i])) THEN Raise(c, "KeyError")
                 ELSE Return(c, [kind |-> "list", items |-> [i \in 1..Len(kept) |-> path \o kept[i]]])

GetDatasets(line) ==
    /\ obj = "live"
    /\ Finish(GetDatasetsRun(store, line))

ExtractLine(a) ==
    /\ obj = "live"
    /\ Finish(ExtractLineRun(store, cachefiles, retain, a))

(***************************************************************************)
(* Survey.WriteHDF5                                                        *)
(***************************************************************************)
\* self.retain[line][location] of the auto-vivifying map: a missing entry
\* reads as an empty (false) map
Retained(ret, line, location) == line \in DOMAIN ret /\ location \in DOMAIN ret[line] /\ ret[line][location]

\* h5py.File(fnm, 'w'): a new file that holds the root group only
NewFile == [exists |-> TRUE, data |-> <<>>, groups |-> {<<>>}, keys |-> [g \in {<<>>} |-> <<>>]]

\* the loop of lines 327-340 over an open source: every root group is
\* created, every retained location copied with all below it
CopyRetained(f, ret) ==
    LET lines == {g \in f.groups : Len(g) = 1}
        kept(p) == Len(p) > 1 /\ Retained(ret, p[1], p[2])
        data == [p \in {q \in DOMAIN f.data : kept(q)} |-> f.data[p]]
        groups == {g \in f.groups : Len(g) <= 1 \/ kept(g)}
    IN  [exists |-> TRUE, data |-> data, groups |-> groups,
         keys |-> [g \in groups |-> SelectSeq(f.keys[g], LAMBDA k : Append(g, k) \in groups \cup DOMAIN data)]]

\* WriteHDF5 never opens self.f: it iterates the handle in the state the
\* last method left it, and h5py raises ValueError on a closed file
WriteHDF5(overwrite) ==
    /\ last = NoCall
    /\ obj = "live"
    /\ LET c == Call("WriteHDF5", [overwrite |-> overwrite])
       IN  IF dest.exists /\ ~overwrite
           THEN /\ last' = Return(Diag(c, "already_exists"), None)
                /\ dest' = dest
           ELSE IF status = "open"
           THEN /\ last' = Return([c EXCEPT !.reads = {status}], None)
                /\ dest' = CopyRetained(store, retain)
           ELSE /\ last' = Raise([c EXCEPT !.reads = {status}], "ValueError")
                /\ dest' = NewFile
    /\ UNCHANGED <<store, cachefiles, obj, status, retain, fidlog>>

\* the analysis layer marks a location of the retain map
SetRetain(line, location, keep) ==
    /\ last = NoCall
    /\ obj = "live"
    /\ line \in DOMAIN retain
    /\ location \in DOMAIN retain[line]
    /\ retain[line][location] # keep
    /\ retain' = [retain EXCEPT ![line][location] = keep]
    /\ UNCHANGED <<store, cachefiles, dest, obj, status, last, fidlog>>

\* the caller takes what the call returned or raised and goes on
Resume ==
    /\ last # NoCall
    /\ last' = NoCall
    /\ UNCHANGED <<store, cachefiles, dest, obj, status, retain, fidlog>>

\* one call of _path2fid on the path of the trace (a, b, c, d)
TracePath(a, b, c, d) == LineName(a) \o <<"/">> \o LocationName(b) \o <<"/">> \o DatacaptureName(c) \o <<"/">> \o EchogramName(d)

Path2FidCall(a, b, c, d) ==
    /\ Len(fidlog) < 2
    /\ fidlog' = fidlog \o <<[nums |-> <<a, b, c, d>>, path |-> TracePath(a, b, c, d), res |-> Path2Fid(TracePath(a, b, c, d), FALSE)]>>
    /\ UNCHANGED <<store, cachefiles, dest, obj, status, retain, last>>

\* the caller drops the two identifiers it compared
ForgetFids ==
    /\ Len(fidlog) = 2
    /\ fidlog' = <<>>
    /\ UNCHANGED <<store, cachefiles, dest, obj, status, retain, last>>

(***************************************************************************)
(* The stores and the arguments the specifications draw from.              *)
(***************************************************************************)
\* the samples of a trace: never zero, so that padding shows
SampleVal(loc, dc, n) == [i \in 1..n |-> 100 * loc + 10 * dc + i]

\* two lines of two locations with two channels each, a picked overlay
\* and a dataset under the root
SmallLeaves ==
    {Trace(lin, loc, dc, 0, SampleVal(loc, dc, 1 + loc + dc)) : lin \in {1, 2}, loc \in {0, 1}, dc \in {0, 1}}
    \cup {Picked(1, 0, 0, SampleVal(0, 0, 1)), RootData(SampleVal(0, 0, 1))}

\* one line whose locations sort differently by number and by name; n gives
\* the number of samples at each location
LineLocs == {2, 9, 10}
LineLeaves(n) ==
    {Trace(0, loc, 0, 0, SampleVal(loc, 0, n[loc])) : loc \in LineLocs}
    \cup {Trace(0, loc, 1, 0, SampleVal(loc, 1, (n[loc] + 1) % (MaxSamples + 1))) : loc \in LineLocs}
    \cup {Trace(0, 9, 0, 1, SampleVal(9, 0, 1)), Picked(0, 2, 0, SampleVal(2, 0, 1))}

NoBounds == PyTuple(<<PyNone, PyNone>>)
Indices == {PyNone} \cup {PyInt(i) : i \in -1..MaxIndex}
PairBounds == {PyTuple(<<lo, hi>>) : lo \in Indices, hi \in Indices}
MalformedBounds ==
    {PyInt(1), PyNone, PyTuple(<<>>), PyTuple(<<PyInt(1)>>), PyTuple(<<PyInt(0), PyInt(1), PyInt(2)>>),
     PyTuple(<<PyStr, PyInt(1)>>), PyTuple(<<PyInt(1), PyStr>>), PyTuple(<<PyFloat, PyNone>>), PyTuple(<<PyStr, PyStr>>)}

SmallCalls ==
    {[line |-> l, bounds |-> b, datacapture |-> d, fromcache |-> f, bad |-> m] :
        l \in {1, 3}, b \in {NoBounds, PyTuple(<<PyInt(0), PyInt(1)>>), PyInt(1), PyTuple(<<PyInt(1)>>), PyTuple(<<PyStr, PyInt(1)>>)},
        d \in {PyInt(0), PyInt(5)}, f \in BOOLEAN, m \in BOOLEAN}

LineCalls ==
    {[line |-> 0, bounds |-> b, datacapture |-> d, fromcache |-> FALSE, bad |-> FALSE] :
        b \in PairBounds \cup MalformedBounds, d \in {PyInt(0), PyInt(5), PyTuple(<<PyInt(0), PyInt(1)>>)}}

CacheFile(content) == [name \in {GetLineCacheName(1, PyInt(0), CacheDir)} |-> content]

(***************************************************************************)
(* Spec: a survey file, present or missing, and every method of Survey.    *)
(***************************************************************************)
Init ==
    /\ store \in {MakeFile(SmallLeaves), NoFile}
    /\ cachefiles \in {<<>>, CacheFile("valid"), CacheFile("corrupt")}
    /\ dest \in {NoFile, NewFile}
    /\ obj = "none"
    /\ status = "unset"
    /\ retain = <<>>
    /\ last = NoCall
    /\ fidlog = <<>>

Next ==
    \/ Construct
    \/ Del
    \/ GetLines
    \/ \E lineno \in {-1, 0, 2} : GetChannelsInLine(lineno)
    \/ \E l \in {1, 3} : ExtractTrace([line |-> l, location |-> 0, datacapture |-> 0, echogram |-> 0])
    \/ \E line \in {PyNone, PyInt(1), PyInt(3)} : GetDatasets(line)
    \/ \E a \in SmallCalls : ExtractLine(a)
    \/ \E overwrite \in BOOLEAN : WriteHDF5(overwrite)
    \/ \E l \in {1, 2}, loc \in {0, 1}, keep \in BOOLEAN : SetRetain(LineName(l), LocationName(loc), keep)
    \/ Resume

Spec == Init /\ [][Next]_vars

(***************************************************************************)
(* SpecLine: ExtractLine on one line, over all bounds and trace lengths.   *)
(***************************************************************************)
InitLine ==
    /\ store \in {MakeFile(LineLeaves(n)) : n \in [LineLocs -> 1..MaxSamples]}
    /\ cachefiles = <<>>
    /\ dest = NoFile
    /\ obj = "none"
    /\ status = "unset"
    /\ retain = <<>>
    /\ last = NoCall
    /\ fidlog = <<>>

NextLine ==
    \/ Construct
    \/ \E a \in LineCalls : ExtractLine(a)
    \/ Resume

SpecLine == InitLine /\ [][NextLine]_vars

(***************************************************************************)
(* SpecFid: _path2fid on the paths of traces.                              *)
(***************************************************************************)
FidNumbers == {0, 12, 9999}

NextFid ==
    \/ \E a \in FidNumbers, b \in FidNumbers, c \in FidNumbers, d \in FidNumbers : Path2FidCall(a, b, c, d)
    \/ ForgetFids

InitFid ==
    /\ store = NoFile
    /\ cachefiles = <<>>
    /\ dest = NoFile
    /\ obj = "none"
    /\ status = "unset"
    /\ retain = <<>>
    /\ last = NoCall
    /\ fidlog = <<>>

SpecFid == InitFid /\ [][NextFid]_vars

(***************************************************************************)
(* The claims.                                                             *)
(***************************************************************************)
PublicOps == {"Survey", "GetLines", "GetChannelsInLine", "ExtractTrace", "ExtractLine", "WriteHDF5"}

\* C1: on an existing store every public operation, however it ends (a
\* return, an early return after a diagnostic, a raised exception), leaves
\* self.status 'closed'.
C1_ClosedOnEveryExit ==
    (store.exists /\ last.op \in PublicOps /\ last.outcome \in {"return", "raise"}) => status = "closed"

\* an ExtractLine that opened the store and raised, with the handle closed
C1_Witness ==
    /\ last.op = "ExtractLine" /\ last.opened /\ last.outcome = "raise"
    /\ status = "closed"

\* C2: no operation reads the source store while the handle is closed;
\* every read happens under a handle the operation opened itself.
C2_NoReadWhileClosed == \A s \in last.reads : s = "open"

\* the digits of an identifier
AllDigits(fid) == \A i \in 1..Len(fid) : IsDigit(fid[i])

\* C3: _path2fid gives every trace path with numbers in 0..9999 an
\* identifier of exactly 16 digits, and different (line, location,
\* datacapture, echogram) numbers never give the same identifier.
C3_FidInjective ==
    \A i, j \in 1..Len(fidlog) :
        /\ fidlog[i].res.ok
        /\ Len(fidlog[i].res.fid) = 16
        /\ AllDigits(fidlog[i].res.fid)
        /\ (fidlog[i].nums # fidlog[j].nums => fidlog[i].res.fid # fidlog[j].res.fid)

\* C4: construction marks every (line, location) of the store retained, and
\* WriteHDF5 writes a file that holds every line group of the source and,
\* under each, exactly the locations whose flag is true.
C4_RetainRoundTrip ==
    /\ (last.op = "Survey" /\ last.outcome = "return") =>
           \A g \in store.groups : Len(g) = 2 => (g[1] \in DOMAIN retain /\ g[2] \in DOMAIN retain[g[1]] /\ retain[g[1]][g[2]])
    /\ (last.op = "WriteHDF5" /\ ~InSeq("already_exists", last.diag)) =>
           /\ \A g \in store.groups : Len(g) = 1 => g \in dest.groups
           /\ \A g \in store.groups : Len(g) = 2 => (g \in dest.groups <=> retain[g[1]][g[2]])

\* C5: constructing a Survey on a missing file lets no exception escape: the
\* failure is reported ('No survey exists with the filename'), the status
\* is defined, and discarding the object does not fail either.
C5_MissingStoreReported ==
    /\ (last.op = "Survey" /\ ~store.exists) =>
           (last.outcome = "return" /\ InSeq("no_survey", last.diag) /\ status \in {"open", "closed"})
    /\ (last.op = "__del__" /\ ~store.exists) => last.outcome = "return"

\* the call of last with fromcache false, on the same store
WithoutCache == ExtractLineRun(store, cachefiles, retain, [last.args EXCEPT !.fromcache = FALSE])

\* C6: with fromcache true and a cache file that is missing or does not
\* deserialize, ExtractLine never raises because of the cache: it reports
\* the miss, assembles from the store, and ends as the same call with
\* fromcache false ends.
C6_CacheNeverFails ==
    (/\ last.op = "ExtractLine"
     /\ last.args.fromcache
     /\ LET fnm == GetLineCacheName(last.args.line, last.args.datacapture, CacheDir)
        IN  fnm \notin DOMAIN cachefiles \/ cachefiles[fnm] = "corrupt")
    => /\ InSeq("cache_miss", last.diag)
       /\ last.opened
       /\ last.outcome = WithoutCache.outcome
       /\ last.exc = WithoutCache.exc
       /\ last.ret = WithoutCache.ret

\* a bounds argument that is a pair of integer-or-None indices
WellFormed(b) == b.t = "tuple" /\ Len(b.items) = 2 /\ \A i \in 1..2 : b.items[i].t \in {"int", "none"}

\* C7: a malformed bounds argument is reported and ignored as a whole: the
\* call does not raise, and the selected leaves are the full sorted
\* sequence, with neither bound applied.
C7_MalformedBoundsIgnored ==
    (last.op = "ExtractLine" /\ last.stage = "bounds" /\ ~WellFormed(last.args.bounds))
    => /\ last.outcome = "return"
       /\ InSeq("bad_bounds", last.diag)
       /\ last.selected = last.sorted

\* the leaf of the store behind a name that is relative to the line of last
LeafOf(name) == store.data[CHOOSE p \in DOMAIN store.data : Join(p, "/") = LineName(last.args.line) \o <<"/">> \o name]

\* C8: the array ExtractLine assembles from k selected leaves of n_1..n_k
\* samples has max n_j rows and k columns; column j holds leaf j's values in
\* rows 1..n_j and zero in every row below.
C8_ArrayZeroPadded ==
    (last.op = "ExtractLine" /\ last.ret.kind = "gather")
    => LET sel == last.selected
           k == Len(sel)
           n == [j \in 1..k |-> Len(LeafOf(sel[j]).val)]
           arr == last.ret.arr
       IN  /\ k >= 1
           /\ \E j \in 1..k : n[j] = last.ret.shape[1]
           /\ \A j \in 1..k : n[j] <= last.ret.shape[1]
           /\ last.ret.shape[2] = k
           /\ Len(arr) = last.ret.shape[1]
           /\ \A r \in 1..Len(arr) :
                  /\ Len(arr[r]) = k
                  /\ \A j \in 1..k : arr[r][j] = IF r <= n[j] THEN LeafOf(sel[j]).val[r] ELSE 0

\* three or more columns of different lengths, one of them padded
C8_Witness ==
    /\ last.op = "ExtractLine" /\ last.ret.kind = "gather"
    /\ last.ret.shape[2] >= 3
    /\ last.ret.shape[1] = MaxSamples
    /\ \E j \in 1..last.ret.shape[2] : Len(LeafOf(last.selected[j]).val) < MaxSamples /\ last.ret.arr[MaxSamples][j] = 0

\* the raw traces of the line of last in the datacaptures it asked for
DcNumbers(d) == IF d.t = "tuple" THEN {d.items[i].v : i \in 1..Len(d.items)} ELSE {d.v}
Filtered ==
    {p \in DOMAIN store.data :
        /\ store.data[p].kind = "trace"
        /\ store.data[p].lin = last.args.line
        /\ store.data[p].dc \in DcNumbers(last.args.datacapture)}

\* C9: for well-formed bounds (lo, hi), None or integers with
\* 0 <= lo <= hi <= n over the n filtered leaves, ExtractLine selects the
\* elements lo..hi-1 (None: 0 and n) of the filtered leaves in ascending
\* order of their location numbers.
C9_BoundsSliceSorted ==
    (/\ last.op = "ExtractLine" /\ last.stage = "bounds" /\ WellFormed(last.args.bounds)
     /\ LET n == Cardinality(Filtered)
            lo == IF last.args.bounds.items[1].t = "none" THEN 0 ELSE last.args.bounds.items[1].v
            hi == IF last.args.bounds.items[2].t = "none" THEN n ELSE last.args.bounds.items[2].v
        IN  0 <= lo /\ lo <= hi /\ hi <= n)
    => LET n == Cardinality(Filtered)
           lo == IF last.args.bounds.items[1].t = "none" THEN 0 ELSE last.args.bounds.items[1].v
           hi == IF last.args.bounds.items[2].t = "none" THEN n ELSE last.args.bounds.items[2].v
           sorted == last.sorted
       IN  /\ Len(sorted) = n
           /\ {sorted[i] : i \in 1..n} = {Join(Tail(p), "/") : p \in Filtered}
           /\ \A i, j \in 1..n : i < j => LeafOf(sorted[i]).loc <= LeafOf(sorted[j]).loc
           /\ last.selected = SubSeq(sorted, lo + 1, hi)

\* bounds (1, 4) on the four leaves of channel 0: locations 9, 9 and 10 in
\* that order
C9_Witness ==
    /\ last.op = "ExtractLine" /\ last.stage = "bounds"
    /\ last.args.bounds = PyTuple(<<PyInt(1), PyInt(4)>>)
    /\ last.args.datacapture = PyInt(0)
    /\ Len(last.selected) = 3
    /\ LeafOf(last.selected[1]).loc = 9
    /\ LeafOf(last.selected[3]).loc = 10

\* C10: ExtractLine on an existing line with a channel that matches no leaf
\* does not raise: it reports a diagnostic, returns no result object, and
\* leaves the handle closed.
C10_NoMatchReturnsNothing ==
    (/\ last.op = "ExtractLine" /\ last.opened
     /\ IsGroup(store, <<LineName(last.args.line)>>)
     /\ Filtered = {})
    => /\ last.outcome = "return"
       /\ last.ret = None
       /\ InSeq("no_match", last.diag)
       /\ status = "closed"

\* what the code does keep of C10: with bounds that are a pair of
\* integer-or-None indices the call ends as C10 says
C10_WithWellFormedBounds ==
    (/\ last.op = "ExtractLine" /\ last.opened
     /\ IsGroup(store, <<LineName(last.args.line)>>)
     /\ Filtered = {}
     /\ WellFormed(last.args.bounds))
    => /\ last.outcome = "return"
       /\ last.ret = None
       /\ InSeq("no_match", last.diag)
       /\ status = "closed"
====
